---------------------------- MODULE Spec2Model ----------------------------
(***************************************************************************)
(* A model of src/webrtc.ts: the SDP codec filter (sdpFilterCodec) and the *)
(* start/stop lifecycle around negotiate().                                *)
(*                                                                         *)
(* Text.  A string is a sequence of lexemes: "m=", "video", " ", "96",     *)
(* "a=rtpmap:", "\r", "\n", ...  The regular expressions of the source     *)
(* only ever begin and end a match at a lexeme boundary of the lines used  *)
(* here (a run of digits is one lexeme, white space is the lexemes " " and *)
(* "\r"), so every match is computed on lexemes exactly as the engine      *)
(* computes it on characters.                                              *)
(***************************************************************************)
EXTENDS Integers, Sequences, FiniteSets, TLC

VARIABLES
    kind,       \* sdpFilterCodec's parameter kind of the filter runs
    realSdp,    \* the text handed to the latest sdpFilterCodec run
    filtered,   \* the text that run returned
    runs,       \* how many times the filter has been applied in a row
    started,    \* TRUE once the exported function has run its wiring (150-151)
    hasStart,   \* options.start was supplied
    hasStop,    \* options.stop was supplied
    pc,         \* the closure variable pc (line 27): Null or a connection
    conns,      \* every RTCPeerConnection constructed so far, in order
    lastTrigger \* the handler that ran last, and the pc it saw

vars == <<kind, realSdp, filtered, runs, started, hasStart, hasStop, pc,
          conns, lastTrigger>>

filterVars == <<kind, realSdp, filtered, runs>>
lifeVars == <<started, hasStart, hasStop, pc, conns, lastTrigger>>

-----------------------------------------------------------------------------
(* Lexemes *)

SP == " "
CR == "\r"
LF == "\n"

\* The payload types that occur in the lines below, as written in the text.
Digits == {"9", "96", "97", "98", "111"}

\* Unary plus on a captured digit string (+matchCodex[1]).
Num(d) ==
    CASE d = "9" -> 9
      [] d = "96" -> 96
      [] d = "97" -> 97
      [] d = "98" -> 98
      [] d = "111" -> 111

\* White space as \s sees it.
IsSpace(a) == a \in {SP, CR, LF}

\* A line terminator, which "." does not match.
IsLineTerminator(a) == a \in {CR, LF}

Min(S) == CHOOSE i \in S : \A j \in S : i <= j

\* Array.prototype.includes on a number[].
Includes(arr, n) == \E i \in 1..Len(arr) : arr[i] = n

\* String.prototype.startsWith.
StartsWith(line, prefix) ==
    /\ Len(line) >= Len(prefix)
    /\ SubSeq(line, 1, Len(prefix)) = prefix

\* realSdp.split('\n'): the text between the separators; a text that ends with
\* the separator yields a last, empty line.
RECURSIVE SplitFrom(_, _, _, _)
SplitFrom(s, i, cur, acc) ==
    IF i > Len(s) THEN Append(acc, cur)
    ELSE IF s[i] = LF THEN SplitFrom(s, i + 1, <<>>, Append(acc, cur))
    ELSE SplitFrom(s, i + 1, Append(cur, s[i]), acc)

Split(s) == SplitFrom(s, 1, <<>>, <<>>)

\* allowed.join(' '): each number in decimal, separated by one space.
RECURSIVE Join(_)
Join(arr) ==
    IF Len(arr) = 0 THEN <<>>
    ELSE IF Len(arr) = 1 THEN <<ToString(arr[1])>>
    ELSE <<ToString(arr[1]), SP>> \o Join(Tail(arr))

-----------------------------------------------------------------------------
(* The regular expressions of sdpFilterCodec.  A match is the sequence of  *)
(* its captures ($1, $2, ...); no match (null) is the empty sequence.      *)

\* rtxRegex = a=fmtp:(\d+) apt=(\d+)\r$   (line 115)
MatchRtx(line) ==
    LET n == Len(line) IN
    IF /\ n >= 6
       /\ line[n - 5] = "a=fmtp:"
       /\ line[n - 4] \in Digits
       /\ line[n - 3] = SP
       /\ line[n - 2] = "apt="
       /\ line[n - 1] \in Digits
       /\ line[n] = CR
    THEN <<line[n - 4], line[n - 1]>>
    ELSE <<>>

\* codecRegex = a=rtpmap:([0-9]+) <codec>, anywhere in the line   (line 116)
MatchCodec(line, codec) ==
    LET at == {i \in 1..Len(line) :
                  /\ i + 3 <= Len(line)
                  /\ line[i] = "a=rtpmap:"
                  /\ line[i + 1] \in Digits
                  /\ line[i + 2] = SP
                  /\ line[i + 3] = codec}
    IN IF at = {} THEN <<>> ELSE <<line[Min(at) + 1]>>

\* skipRegex = a=(fmtp|rtcp-fb|rtpmap):([0-9]+), anywhere in the line (line 118)
MatchSkip(line) ==
    LET at == {i \in 1..Len(line) :
                  /\ i + 1 <= Len(line)
                  /\ line[i] \in {"a=fmtp:", "a=rtcp-fb:", "a=rtpmap:"}
                  /\ line[i + 1] \in Digits}
    IN IF at = {} THEN <<>> ELSE <<line[Min(at)], line[Min(at) + 1]>>

\* The tail of videoRegex, ( ([0-9]+))*\s*$, matched from lexeme j on.
RECURSIVE PayloadTail(_, _)
PayloadTail(line, j) ==
    \/ \A p \in j..Len(line) : IsSpace(line[p])
    \/ /\ j + 1 <= Len(line)
       /\ line[j] = SP
       /\ line[j + 1] \in Digits
       /\ PayloadTail(line, j + 2)

\* videoRegex = (m=<kind> .*?)( ([0-9]+))*\s*$   (line 117).  The match is
\* [from, to]: it begins at lexeme `from` and $1 ends at lexeme `to`; the
\* match itself runs to the end of the line.  The engine takes the leftmost
\* start and, there, the shortest .*? that lets the tail match.
MatchVideo(line, k) ==
    LET n == Len(line)
        Lazy(i) == {e \in (i + 2)..n :
                       /\ \A p \in (i + 3)..e : ~IsLineTerminator(line[p])
                       /\ PayloadTail(line, e + 1)}
        at == {i \in 1..n :
                  /\ i + 2 <= n
                  /\ line[i] = "m="
                  /\ line[i + 1] = k
                  /\ line[i + 2] = SP
                  /\ Lazy(i) # {}}
    IN IF at = {} THEN <<>> ELSE <<Min(at), Min(Lazy(Min(at)))>>

\* line.replace(videoRegex, '$1' + allowed.join(' '))   (line 140): the text
\* before the match, then $1, then the joined list; nothing separates them.
ReplaceVideo(line, m, allowed) ==
    SubSeq(line, 1, m[2]) \o Join(allowed)

-----------------------------------------------------------------------------
(* sdpFilterCodec *)

\* The flag both reducers recompute for each line (lines 123 and 134).
IsKind(isKind, line, k) ==
    \/ StartsWith(line, <<"m=", k, SP>>)
    \/ (~StartsWith(line, <<"m=">>) /\ isKind)

\* One step of the first reducer (lines 123-128).  isKind is assigned there
\* and read by neither of the two tests.
CollectLine(old, line, codec) ==
    LET matchCodex == MatchCodec(line, codec)
        matchRegex == MatchRtx(line)
        old1 == IF matchCodex # <<>> THEN Append(old, Num(matchCodex[1]))
                ELSE old
    IN IF matchRegex # <<>> /\ Includes(old1, Num(matchRegex[2]))
       THEN Append(old1, Num(matchRegex[1]))
       ELSE old1

\* allowed (lines 122-129): lines.reduce over the first i lines.
RECURSIVE Collect(_, _, _)
Collect(lines, i, codec) ==
    IF i = 0 THEN <<>>
    ELSE CollectLine(Collect(lines, i - 1, codec), lines[i], codec)

Allowed(lines, codec) == Collect(lines, Len(lines), codec)

\* What the second reducer appends for one line (lines 135-143); isKind is
\* the flag as updated for this line.  A line that skipRegex does not match
\* gives NaN, which no array of payload types includes.
RewriteLine(line, isKind, k, allowed) ==
    LET skip == MatchSkip(line)
        isIncluded == skip # <<>> /\ Includes(allowed, Num(skip[2]))
        isVideo == MatchVideo(line, k)
    IN IF isKind
       THEN IF isIncluded
            THEN IF isVideo # <<>>
                 THEN ReplaceVideo(line, isVideo, allowed) \o <<SP, LF>>
                 ELSE line \o <<SP, LF>>
            ELSE <<>>
       ELSE line \o <<SP, LF>>

\* The second reducer (lines 131-144) from line i on, with the flag as it
\* stands before line i.
RECURSIVE Rewrite(_, _, _, _, _)
Rewrite(lines, i, isKind, k, allowed) ==
    IF i > Len(lines) THEN <<>>
    ELSE LET now == IsKind(isKind, lines[i], k)
         IN RewriteLine(lines[i], now, k, allowed)
                \o Rewrite(lines, i + 1, now, k, allowed)

\* sdpFilterCodec(kind, codec, realSdp) for a text realSdp (lines 114-146).
sdpFilterCodec(k, codec, sdp) ==
    LET lines == Split(sdp)
    IN Rewrite(lines, 1, FALSE, k, Allowed(lines, codec))

-----------------------------------------------------------------------------
(* The lifecycle: the closure of the exported function (lines 16-152).     *)

MaxConns == 2

\* let pc = null (line 27): no connection.  Connections are 1, 2, ... in
\* the order they were constructed.
Null == 0

\* The codec negotiate asks for, the only value of the parameter's type.
Codec == "H264/90000"

\* A new RTCPeerConnection (lines 44-60) at the first await of startCamera
\* (line 90).
\*   at        where the startRecording call that made it is suspended, or
\*             how its promise was settled
\*   failedAt  the await whose rejection settled it
\*   steps     the calls negotiate has made on it, in order
\*   offer     negotiate's variable offer (its sdp)
\*   body      the sdp of the request body
\*   response  the Response fetch resolved with
\*   close     the timer of stopCamera (line 110)
NewConn ==
    [at |-> "getUserMedia",
     failedAt |-> "none",
     steps |-> <<>>,
     iceGatheringState |-> "new",
     checkState |-> FALSE,
     offer |-> <<>>,
     localDescription |-> <<>>,
     body |-> <<>>,
     response |-> [ok |-> FALSE, body |-> "none"],
     remoteDescription |-> "none",
     stopped |-> FALSE,
     close |-> "none"]

Conns == 1..Len(conns)

LifeIdle ==
    /\ started = FALSE
    /\ pc = Null
    /\ conns = <<>>
    /\ lastTrigger = [by |-> "none", ran |-> "none", saw |-> Null]

FilterIdle ==
    /\ kind = "video"
    /\ realSdp = <<>>
    /\ filtered = <<>>
    /\ runs = 0

\* The state at line 27 of a call of the exported function, with or without
\* the optional trigger elements.
Init ==
    /\ hasStart \in BOOLEAN
    /\ hasStop \in BOOLEAN
    /\ LifeIdle
    /\ FilterIdle

\* startRecording (lines 29-31) up to its first suspension: startCamera
\* constructs the connection and awaits getUserMedia.
startRecording(by) ==
    /\ Len(conns) < MaxConns
    /\ conns' = Append(conns, NewConn)
    /\ pc' = pc
    /\ lastTrigger' = [by |-> by, ran |-> "startRecording", saw |-> pc]

\* stopCamera that stops the transceivers and tracks and sets no timer.
stopCameraNoTimer(conn) == [conn EXCEPT !.stopped = TRUE]

\* stopCamera (lines 103-112): stops the transceivers and the senders'
\* tracks and schedules close().
stopCamera(conn) ==
    [conn EXCEPT !.stopped = TRUE, !.close = "scheduled"]

\* stopRecording without its test of pc: with no connection in pc, the
\* latest connection is stopped.
stopRecordingUntested(by) ==
    /\ conns' = IF pc # Null
                THEN [conns EXCEPT ![pc] = stopCamera(conns[pc])]
                ELSE IF Len(conns) > 0
                THEN [conns EXCEPT ![Len(conns)] = stopCamera(conns[Len(conns)])]
                ELSE conns
    /\ pc' = Null
    /\ lastTrigger' = [by |-> by, ran |-> "stopRecording", saw |-> pc]

\* stopRecording that also stops the connection of every start that is
\* still suspended.
stopRecordingAborting(by) ==
    /\ conns' = [c \in Conns |->
                    IF c = pc \/ conns[c].at \notin {"fulfilled", "rejected"}
                    THEN stopCamera(conns[c])
                    ELSE conns[c]]
    /\ pc' = Null
    /\ lastTrigger' = [by |-> by, ran |-> "stopRecording", saw |-> pc]

\* stopRecording (lines 33-36).
stopRecording(by) ==
    /\ conns' = IF pc # Null
                THEN [conns EXCEPT ![pc] = stopCamera(conns[pc])]
                ELSE conns
    /\ pc' = Null
    /\ lastTrigger' = [by |-> by, ran |-> "stopRecording", saw |-> pc]

\* Lines 150-151.  addEventListener returns undefined, so the right operand
\* of ?? is evaluated whether or not options.start was supplied.
Setup ==
    /\ ~started
    /\ started' = TRUE
    /\ startRecording("setup")
    /\ UNCHANGED <<hasStart, hasStop, filterVars>>

\* A click on options.start (line 150).
StartClick ==
    /\ started
    /\ hasStart
    /\ IF pc # Null THEN stopRecording("start") ELSE startRecording("start")
    /\ UNCHANGED <<started, hasStart, hasStop, filterVars>>

\* A click on options.stop (line 151).
StopClick ==
    /\ started
    /\ hasStop
    /\ stopRecording("stop")
    /\ UNCHANGED <<started, hasStart, hasStop, filterVars>>

\* The lines the texts are made of, without their terminator.
LineVocab == <<
    <<"c=IN", SP, "IP4", SP, "0.0.0.0">>,
    <<"m=", "video", SP, "9", SP, "UDP/TLS/RTP/SAVPF", SP, "96", SP, "97", SP, "98">>,
    <<"m=", "audio", SP, "9", SP, "UDP/TLS/RTP/SAVPF", SP, "111">>,
    <<"a=rtpmap:", "96", SP, "H264/90000">>,
    <<"a=rtpmap:", "98", SP, "VP8/90000">>,
    <<"a=fmtp:", "97", SP, "apt=", "96">>,
    <<"a=fmtp:", "96", SP, "m=", "video", SP, "q", SP, "98">> >>

\* The text made of the lines picked by `pick`, each followed by eol.
RECURSIVE Text(_, _)
Text(pick, eol) ==
    IF Len(pick) = 0 THEN <<>>
    ELSE LineVocab[pick[1]] \o eol \o Text(Tail(pick), eol)

\* The offers createOffer resolves with: a video section that offers H264
\* with its retransmission and VP8, and an audio and a video section
\* without H264.
OfferSdps ==
    {Text(<<2, 4, 6, 5>>, <<CR, LF>>), Text(<<3, 1, 2, 5>>, <<CR, LF>>)}

\* What fetch resolves with, which it does whatever the status: the answer
\* (a session description in JSON), an error status with a JSON body that
\* is no session description, and either status with a body that is not
\* JSON.
Responses ==
    {[ok |-> TRUE, body |-> "answer"],
     [ok |-> FALSE, body |-> "json"],
     [ok |-> TRUE, body |-> "text"],
     [ok |-> FALSE, body |-> "text"]}

\* Lines 77-82, run when the gathering promise has resolved: the local
\* description is read back, its sdp filtered and posted.
Signal(conn) ==
    LET offer == IF conn.localDescription # <<>>
                 THEN conn.localDescription
                 ELSE conn.offer
        sdp == sdpFilterCodec("video", Codec, offer)
    IN [conn EXCEPT !.offer = sdp,
                    !.body = sdp,
                    !.steps = @ \o <<"filter", "fetch">>,
                    !.at = "fetch"]

\* resolve() of the gathering promise (lines 70 and 73) and what awaits it.
Resolve(conn) ==
    Signal([conn EXCEPT !.steps = Append(@, "gatheringComplete")])

\* GatheringWait without its test: the promise resolves at once.
GatheringWaitUnchecked(conn) == Resolve(conn)

\* GatheringWait that registers the listener without looking at the state.
GatheringWaitListenFirst(conn) ==
    [conn EXCEPT !.checkState = TRUE, !.at = "iceGathering"]

\* The executor of the gathering promise (lines 66-75).
GatheringWait(conn) ==
    IF conn.iceGatheringState = "complete"
    THEN Resolve(conn)
    ELSE [conn EXCEPT !.checkState = TRUE, !.at = "iceGathering"]

\* The listener checkState (lines 67-72).
checkState(conn) ==
    IF conn.iceGatheringState = "complete"
    THEN Resolve([conn EXCEPT !.checkState = FALSE])
    ELSE conn

\* What happens on a connection leaves the closure's other state alone.
OnConn(c, conn) ==
    /\ conns' = [conns EXCEPT ![c] = conn]
    /\ UNCHANGED <<pc, lastTrigger, started, hasStart, hasStop, filterVars>>

\* getUserMedia resolves (line 90): the tracks are added and negotiate
\* calls createOffer (line 64).
GetUserMediaResolved ==
    \E c \in Conns :
        /\ conns[c].at = "getUserMedia"
        /\ OnConn(c, [conns[c] EXCEPT !.at = "createOffer",
                                      !.steps = Append(@, "createOffer")])

\* createOffer resolves; setLocalDescription is called (line 65).
CreateOfferResolved ==
    \E c \in Conns :
        /\ conns[c].at = "createOffer"
        /\ \E sdp \in OfferSdps :
               OnConn(c, [conns[c] EXCEPT !.at = "setLocalDescription",
                                          !.offer = sdp,
                                          !.steps = Append(@, "setLocalDescription")])

\* setLocalDescription resolves: the offer is the local description, and
\* the gathering promise is constructed and awaited.
SetLocalDescriptionResolved ==
    \E c \in Conns :
        /\ conns[c].at = "setLocalDescription"
        /\ OnConn(c, GatheringWait([conns[c] EXCEPT
                                       !.localDescription = conns[c].offer]))

\* The engine moves the gathering state on, which it may do from the call
\* of setLocalDescription on, and fires icegatheringstatechange.
IceGatheringStateChange ==
    \E c \in Conns :
        /\ Len(conns[c].steps) >= 2
        /\ conns[c].close # "closed"
        /\ conns[c].iceGatheringState # "complete"
        /\ LET next == IF conns[c].iceGatheringState = "new"
                       THEN "gathering" ELSE "complete"
               conn == [conns[c] EXCEPT !.iceGatheringState = next]
           IN OnConn(c, IF conn.checkState THEN checkState(conn) ELSE conn)

\* fetch resolves with a response, whatever its status; response.json() is
\* called (line 83).
FetchResolved ==
    \E c \in Conns :
        /\ conns[c].at = "fetch"
        /\ \E r \in Responses :
               OnConn(c, [conns[c] EXCEPT !.at = "json",
                                          !.response = r,
                                          !.steps = Append(@, "json")])

\* response.json() resolves: setRemoteDescription is called and not awaited,
\* negotiate and startCamera return the connection, and startRecording
\* assigns it to pc (lines 83-84, 100, 30).
JsonResolved ==
    \E c \in Conns :
        /\ conns[c].at = "json"
        /\ conns[c].response.body # "text"
        /\ conns' = [conns EXCEPT ![c] =
                        [@ EXCEPT !.at = "fulfilled",
                                  !.remoteDescription = "pending",
                                  !.steps = Append(@, "setRemoteDescription")]]
        /\ pc' = c
        /\ UNCHANGED <<lastTrigger, started, hasStart, hasStop, filterVars>>

\* An awaited promise rejects: getUserMedia (line 90), createOffer (64),
\* setLocalDescription (65), fetch (82), or response.json() (83) on a body
\* that is not JSON.  The rejection leaves startRecording before it has
\* assigned pc.
AwaitRejected ==
    \E c \in Conns :
        /\ \/ conns[c].at \in {"getUserMedia", "createOffer",
                               "setLocalDescription", "fetch"}
           \/ (conns[c].at = "json" /\ conns[c].response.body = "text")
        /\ OnConn(c, [conns[c] EXCEPT !.at = "rejected",
                                      !.failedAt = conns[c].at])

\* The promise of setRemoteDescription (line 83) settles.  Nothing awaits
\* it.  Only a session description can be applied, and only on a
\* connection that is not closed; the engine may reject one as well.
SetRemoteDescriptionSettled ==
    \E c \in Conns :
        /\ conns[c].remoteDescription = "pending"
        /\ \E result \in {"set", "rejected"} :
               /\ result = "set" =>
                      (conns[c].response.body = "answer" /\ conns[c].close # "closed")
               /\ OnConn(c, [conns[c] EXCEPT !.remoteDescription = result])

\* The timer of stopCamera fires (line 110): pc.close().
CloseTimerFired ==
    \E c \in Conns :
        /\ conns[c].close = "scheduled"
        /\ OnConn(c, [conns[c] EXCEPT !.close = "closed"])

Next ==
    \/ Setup
    \/ StartClick
    \/ StopClick
    \/ GetUserMediaResolved
    \/ CreateOfferResolved
    \/ SetLocalDescriptionResolved
    \/ IceGatheringStateChange
    \/ FetchResolved
    \/ JsonResolved
    \/ AwaitRejected
    \/ SetRemoteDescriptionSettled
    \/ CloseTimerFired

Spec == Init /\ [][Next]_vars

\* The timer of line 110 is not cancellable and the page's event loop runs
\* every timer that is due: a close() that is scheduled happens.
FairSpec == Spec /\ WF_vars(CloseTimerFired)

-----------------------------------------------------------------------------
(* Properties of the lifecycle *)

\* The calls of negotiate on a connection, in the order of its text.
NegotiateOrder ==
    <<"createOffer", "setLocalDescription", "gatheringComplete", "filter",
      "fetch", "json", "setRemoteDescription">>

IsPrefix(a, b) == Len(a) <= Len(b) /\ SubSeq(b, 1, Len(a)) = a

\* The places where a startRecording call is suspended.
InFlight ==
    {"getUserMedia", "createOffer", "setLocalDescription", "iceGathering",
     "fetch", "json"}

\* What the filter as negotiate calls it (line 78) returns for each offer.
FilteredOffer ==
    [sdp \in OfferSdps |-> sdpFilterCodec("video", Codec, sdp)]

\* C5: on every connection the steps of negotiate happen in the order
\* create offer, set local description, gathering complete, filter, request,
\* none skipped; the filter runs only with the local description installed
\* and the gathering state 'complete', and the request carries the filtered
\* sdp of the local description.
C5_NegotiationOrder ==
    \A c \in Conns :
        LET conn == conns[c] IN
        /\ IsPrefix(conn.steps, NegotiateOrder)
        /\ Len(conn.steps) >= 4 =>
               /\ conn.localDescription # <<>>
               /\ conn.iceGatheringState = "complete"
        /\ Len(conn.steps) >= 5 =>
               conn.body = FilteredOffer[conn.localDescription]

\* A negotiation has sent its request, with an sdp the filter changed.
C5_Witness ==
    \E c \in Conns :
        /\ Len(conns[c].steps) >= 5
        /\ conns[c].body # conns[c].localDescription

\* C6: a failure at any step, a remote description the connection rejects
\* included, rejects startRecording's promise and leaves pc not set to the
\* failed connection.
C6_FailureSurfaced ==
    \A c \in Conns :
        (conns[c].failedAt # "none" \/ conns[c].remoteDescription = "rejected") =>
            (conns[c].at = "rejected" /\ pc # c)

\* C7: when the response to the request has a status that is not 2xx or a
\* body that is not JSON, the start fails and pc is never set to the
\* connection.
C7_BadResponseFails ==
    \A c \in Conns :
        (conns[c].response.body # "none"
            /\ (~conns[c].response.ok \/ conns[c].response.body = "text")) =>
            (conns[c].at # "fulfilled" /\ pc # c)

\* C8: at most one start is in flight at any time.
C8_OneStartInFlight ==
    Cardinality({c \in Conns : conns[c].at \in InFlight}) <= 1

\* C9: while a stopped connection waits for its close(), no start takes
\* effect: no connection is constructed until the teardown has run.
C9_NoStartWhileStopping ==
    [][(\E c \in Conns : conns[c].close = "scheduled") =>
           Len(conns') = Len(conns)]_vars

\* C10: stopRecording with no connection in pc changes nothing: no
\* connection is stopped, no close() is scheduled, and pc stays null.
C10_StopWhenIdleIsNoop ==
    [][(pc = Null /\ StopClick) => (conns' = conns /\ pc' = Null)]_vars

\* stopRecording has run with no connection in pc.
C10_Witness ==
    /\ lastTrigger.ran = "stopRecording"
    /\ lastTrigger.saw = Null

\* C15: the gathering wait misses no completion.  On every connection:
\* while negotiate waits, the listener is registered and the state is not
\* 'complete'; once the local description is set, a state of 'complete'
\* means the wait has resolved (at once when the state was 'complete'
\* already, in the step of the state change otherwise); the wait has
\* resolved only with the state 'complete'; and the listener is registered
\* only while negotiate waits, so it is removed when the wait resolves.
C15_GatheringWaitMissesNothing ==
    \A c \in Conns :
        LET conn == conns[c]
            resolved == Len(conn.steps) >= 3
        IN /\ conn.at = "iceGathering" =>
                  (conn.checkState /\ conn.iceGatheringState # "complete")
           /\ (conn.localDescription # <<>>
                  /\ conn.iceGatheringState = "complete") => resolved
           /\ resolved => conn.iceGatheringState = "complete"
           /\ conn.checkState => (conn.at = "iceGathering" /\ ~resolved)

\* A wait has resolved: the state is 'complete', the listener is gone and
\* negotiate has moved on.
C15_Witness ==
    \E c \in Conns :
        /\ Len(conns[c].steps) >= 3
        /\ conns[c].iceGatheringState = "complete"
        /\ ~conns[c].checkState
        /\ conns[c].at # "iceGathering"

\* C16: whenever pc holds a connection, setRemoteDescription has completed
\* successfully on that connection.
C16_ActiveAfterApplying ==
    pc # Null => conns[pc].remoteDescription = "set"

\* C17: every connection stopCamera has run on is closed in the end, and
\* nothing cancels or redirects the close: a connection goes from open to
\* 'close scheduled' only in the step that stops it as pc, from there only
\* to closed, and stays closed (one close() per stopped connection, none on
\* any other connection), whatever handlers run in between.  A stopped
\* connection stays stopped and a closed one closed, so "closed in the end"
\* is: again and again, every stopped connection is closed.
C17_StoppedIsClosed ==
    /\ [][\A c \in Conns :
              /\ conns[c].close = "none" =>
                     \/ conns'[c].close = "none" /\ ~conns'[c].stopped
                     \/ /\ conns'[c].close = "scheduled"
                        /\ conns'[c].stopped
                        /\ pc = c
              /\ conns[c].close = "scheduled" =>
                     /\ conns'[c].close \in {"scheduled", "closed"}
                     /\ conns'[c].stopped
              /\ conns[c].close = "closed" =>
                     /\ conns'[c].close = "closed"
                     /\ conns'[c].stopped]_vars
    /\ []<>(\A c \in Conns :
               conns[c].stopped => conns[c].close = "closed")

\* A stopped connection has been closed while the connection of a later
\* start is open.
C17_Witness ==
    \E c, d \in Conns :
        /\ c < d
        /\ conns[c].stopped
        /\ conns[c].close = "closed"
        /\ conns[d].close = "none"

\* C18: stopRecording leaves the starts that are suspended alone: a step
\* that runs it (a click on stop, or a click on start with a connection in
\* pc) changes no connection whose start is in flight, and the step in
\* which such a start completes assigns its connection to pc whatever
\* handler ran last.
C18_StopLeavesStartInFlight ==
    [][/\ (StopClick \/ (StartClick /\ pc # Null)) =>
              \A c \in Conns :
                  conns[c].at \in InFlight => conns'[c] = conns[c]
       /\ \A c \in Conns :
              (conns[c].at \in InFlight /\ conns'[c].at = "fulfilled") =>
                  pc' = c]_vars

\* pc holds an open, negotiated connection although the handler that ran
\* last was stopRecording, which found pc null.
C18_Witness ==
    /\ pc # Null
    /\ conns[pc].at = "fulfilled"
    /\ conns[pc].close = "none"
    /\ lastTrigger.ran = "stopRecording"
    /\ lastTrigger.saw = Null

\* C19: with options.start supplied the wiring (line 150) starts nothing:
\* until a click has run a handler, no connection has been constructed.
C19_NoStartAtSetupWithTrigger ==
    (hasStart /\ lastTrigger.by \in {"none", "setup"}) => conns = <<>>

\* C20: every connection that was constructed and not stopped is the one in
\* pc or the one of a start that is in flight.
C20_PcOwnsLiveConnections ==
    \A c \in Conns :
        ~conns[c].stopped => (pc = c \/ conns[c].at \in InFlight)

\* C11: a start whose getUserMedia is rejected has constructed no
\* RTCPeerConnection: none of the connections constructed so far (conns
\* holds one per new RTCPeerConnection, line 44) belongs to a start that
\* failed at getUserMedia.
C11_NoConnectionOnDeniedMedia ==
    \A c \in Conns : conns[c].failedAt # "getUserMedia"

-----------------------------------------------------------------------------
(* The filter on its own: every text of up to MaxLines lines, filtered up  *)
(* to MaxRuns times in a row.                                              *)

MaxLines == 4
MaxRuns == 2

Kinds == {"video", "audio"}

\* Line ends: CRLF as SDP has it, and a bare LF.
Eols == {<<CR, LF>>, <<LF>>}

Picks == UNION {[1..n -> 1..Len(LineVocab)] : n \in 0..MaxLines}

FilterInit ==
    /\ kind \in Kinds
    /\ \E pick \in Picks, eol \in Eols : realSdp = Text(pick, eol)
    /\ filtered = <<>>
    /\ runs = 0
    /\ hasStart = FALSE
    /\ hasStop = FALSE
    /\ LifeIdle

\* sdpFilterCodec applied to the text, and then to what it returned.
RunFilter ==
    /\ runs < MaxRuns
    /\ realSdp' = IF runs = 0 THEN realSdp ELSE filtered
    /\ filtered' = sdpFilterCodec(kind, Codec, realSdp')
    /\ runs' = runs + 1
    /\ UNCHANGED <<kind, lifeVars>>

FilterNext == RunFilter

FilterSpec == FilterInit /\ [][FilterNext]_vars

-----------------------------------------------------------------------------
(* Properties of the filter *)

\* The flag isKind for line i: TRUE inside a media section of kind k.
RECURSIVE InSection(_, _, _)
InSection(lines, i, k) ==
    IF i = 0 THEN FALSE
    ELSE IsKind(InSection(lines, i - 1, k), lines[i], k)

IsHeader(line, k) == StartsWith(line, <<"m=", k, SP>>)

\* The lexemes of a line that are not white space.
Words(line) == SelectSeq(line, LAMBDA a : ~IsSpace(a))

\* The number of lines of `lines` that are `line`, as it stands or followed
\* by the space the filter puts before each line end.
Occurrences(lines, line) ==
    Cardinality({j \in 1..Len(lines) :
                    lines[j] = line \/ lines[j] = line \o <<SP>>})

\* a is a subsequence of b.
RECURSIVE Embeds(_, _)
Embeds(a, b) ==
    IF Len(a) = 0 THEN TRUE
    ELSE IF Len(b) = 0 THEN FALSE
    ELSE IF a[1] = b[1] THEN Embeds(Tail(a), Tail(b))
    ELSE Embeds(a, Tail(b))

\* The lines outside the media sections of kind k, in order.
RECURSIVE OutsideFrom(_, _, _)
OutsideFrom(lines, i, k) ==
    IF i > Len(lines) THEN <<>>
    ELSE (IF InSection(lines, i, k) THEN <<>> ELSE <<lines[i]>>)
             \o OutsideFrom(lines, i + 1, k)

OutsideLines(lines, k) == OutsideFrom(lines, 1, k)

\* Every line end of the text is CRLF.
IsCrlf(s) == \A p \in 1..Len(s) : s[p] = LF => (p > 1 /\ s[p - 1] = CR)

\* The header that opens the section line j lies in.
SectionStart(lines, j, k) ==
    CHOOSE h \in 1..j :
        /\ IsHeader(lines[h], k)
        /\ \A g \in (h + 1)..j : ~StartsWith(lines[g], <<"m=">>)

\* The payload types recognised by lines a..b alone.
RECURSIVE CollectRange(_, _, _, _)
CollectRange(lines, a, b, codec) ==
    IF b < a THEN <<>>
    ELSE CollectLine(CollectRange(lines, a, b - 1, codec), lines[b], codec)

\* The base of the retransmission line j was recognised as allowed by an
\* earlier line of the section of line j.
BaseEarlier(lines, j, k, codec) ==
    Includes(CollectRange(lines, SectionStart(lines, j, k), j - 1, codec),
             Num(MatchRtx(lines[j])[2]))

\* C1: every m=<kind> header line of the text is still in the output, with
\* its prefix ($1 of videoRegex) kept and its payload list replaced by the
\* collected payload types, in collected order (none when none was collected).
C1_HeaderRewritten ==
    runs >= 1 =>
        LET lines == Split(realSdp)
            out == Split(filtered)
            allowed == Allowed(lines, Codec)
        IN \A i \in 1..Len(lines) :
               IsHeader(lines[i], kind) =>
                   \E j \in 1..Len(out) :
                       Words(out[j]) =
                           Words(SubSeq(lines[i], 1, MatchVideo(lines[i], kind)[2]))
                               \o [n \in 1..Len(allowed) |-> ToString(allowed[n])]

\* C2: the lines outside the sections of the target kind are all in the
\* output, with identical content and in the same order.
C2_OutsideUnchanged ==
    runs >= 1 =>
        Embeds(OutsideLines(Split(realSdp), kind), Split(filtered))

\* C3: a retransmission line of a target section is retained if and only if
\* its base was recognised by an earlier line of the same section.  Stated
\* for the texts whose line ends are CRLF, where rtxRegex recognises every
\* a=fmtp:<pt> apt=<ref> line, and counting the copies the output holds of
\* the line: one per occurrence outside the target sections, and one per
\* occurrence inside whose base came earlier in its section.
C3_RtxIffBaseEarlier ==
    (runs = 1 /\ IsCrlf(realSdp)) =>
        LET lines == Split(realSdp)
            out == Split(filtered)
        IN \A j \in 1..Len(lines) :
               (InSection(lines, j, kind) /\ MatchRtx(lines[j]) # <<>>) =>
                   Occurrences(out, lines[j]) =
                       Cardinality({i \in 1..Len(lines) :
                           /\ lines[i] = lines[j]
                           /\ (InSection(lines, i, kind) =>
                                   BaseEarlier(lines, i, kind, Codec))})

\* C4: filtering the filtered text again returns it unchanged.
C4_Idempotent ==
    runs = 2 => filtered = realSdp

\* C12: a line of a target section that is not its header is dropped if and
\* only if skipRegex matches it with a payload type that is not allowed;
\* every other line of the section is copied as it stands.  Stated for the
\* lines that are not empty, counting the copies the output holds of the
\* line: one per occurrence outside the target sections, and one per
\* occurrence inside that is not such a mapping line.
C12_SectionLinesKept ==
    runs = 1 =>
        LET lines == Split(realSdp)
            out == Split(filtered)
            allowed == Allowed(lines, Codec)
            Unmapped(line) ==
                /\ MatchSkip(line) # <<>>
                /\ ~Includes(allowed, Num(MatchSkip(line)[2]))
        IN \A j \in 1..Len(lines) :
               (/\ InSection(lines, j, kind)
                /\ ~IsHeader(lines[j], kind)
                /\ lines[j] # <<>>) =>
                   Occurrences(out, lines[j]) =
                       Cardinality({i \in 1..Len(lines) :
                           /\ lines[i] = lines[j]
                           /\ (InSection(lines, i, kind) =>
                                   ~Unmapped(lines[i]))})

\* The lines inside the media sections of kind k, in order.
RECURSIVE InsideFrom(_, _, _)
InsideFrom(lines, i, k) ==
    IF i > Len(lines) THEN <<>>
    ELSE (IF InSection(lines, i, k) THEN <<lines[i]>> ELSE <<>>)
             \o InsideFrom(lines, i + 1, k)

InsideLines(lines, k) == InsideFrom(lines, 1, k)

\* C13: the payload types collected by the first reducer come from lines
\* inside the sections of the target kind only: the collected list is the
\* one the lines of those sections give, the other lines left out.
C13_CollectsInsideSection ==
    runs >= 1 =>
        LET lines == Split(realSdp)
        IN Allowed(lines, Codec) = Allowed(InsideLines(lines, kind), Codec)

\* The places of `arr` that hold a number an earlier place holds already.
Repeats(arr) ==
    {j \in 1..Len(arr) : \E i \in 1..(j - 1) : arr[i] = arr[j]}

\* C14: the collected list holds each payload type at most once, at the
\* place of its first match, whatever lines match it again.  Stated for the
\* texts whose collected payload types all come from the target sections.
C14_AllowedHasNoDuplicates ==
    LET lines == Split(realSdp)
        allowed == Allowed(lines, Codec)
    IN (runs >= 1 /\ allowed = Allowed(InsideLines(lines, kind), Codec)) =>
           Repeats(allowed) = {}

=============================================================================
